---- MODULE Spec2Model ----
(***************************************************************************)
(* Model of dataregistry/src/converters.ts: applyConverterDataset (the     *)
(* worklist expansion of a dataset through a converter) and                *)
(* combineManyConverters (the converter combinator).                       *)
(***************************************************************************)
EXTENDS Integers, Sequences, FiniteSets, TLC

\* ------------------------------------------------------------------ bounds
\* Seed costs and per-edge weights range over 0..MaxCost.
MaxCost == 1
\* Number of converters handed to combineManyConverters.
MaxConverters == 2
\* Number of consumers that subscribe to the handles of a returned dataset.
MaxConsumers == 3

\* The mimetypes of the model, in the order a seed dataset lists them.
MimeTypes == <<"text/plain", "text/csv", "image/png">>
MimeTypeSet == {MimeTypes[i] : i \in 1..Len(MimeTypes)}
\* A seed dataset holds the first 0..Len(SeedTypes) of these, in this order.
SeedTypes == <<"text/plain", "text/csv">>
URLs == {"file:///data.csv"}
Costs == 0..MaxCost
Consumers == 1..MaxConsumers
\* What a subscriber of a data handle gets in the end.
Outcomes == {"value", "error"}

VARIABLES
  url,         \* the URL_ argument
  dataset,     \* the Dataset argument (a Map: a sequence of entries, unique keys)
  converters,  \* the converters combined into the Converter argument
  mode,        \* how the converters compute a candidate's cost
  pc,          \* "idle" | "loop" | "returned" | "failed" | "combined" | "combineFailed"
  toProcess,   \* the worklist (an Array used as a stack)
  processed,   \* the processed Map, in insertion order
  result,      \* the Dataset handed back to the caller
  calls,       \* every argument the converter was invoked with, in order
  last,        \* what the last step did, and to which popped entry
  previous,    \* the mimetype -> cost mapping an earlier call returned, if any
  arg,         \* the argument of a direct call of the combined converter
  out,         \* what that call returned
  invoked,     \* the converters that call invoked, with their argument, in order
  started,     \* per underlying computation, how many times it was started
  pending,     \* the result slots whose computation is in flight
  settled,     \* the result slots that hold an outcome
  waiting,     \* the subscriptions attached to a slot in flight
  observed     \* what each subscriber got, and how it came to subscribe

inputVars == <<url, dataset, converters, mode>>
combineVars == <<arg, out, invoked>>
\* What no step of a call assigns: the other arguments, and the earlier result.
fixedVars == <<url, converters, mode, previous>>
cacheVars == <<started, pending, settled, waiting, observed>>
vars == <<url, dataset, converters, mode, pc, toProcess, processed, result, calls, last,
          previous, arg, out, invoked, started, pending, settled, waiting, observed>>

\* ------------------------------------------------------------ data handles
\* A raw Observable, as a converter returns it.
RawHandle(id) == [kind |-> "raw", id |-> id]
\* A CachedObservable over the computation id.
CachedHandle(id) == [kind |-> "cached", id |-> id]
\* CachedObservable.from(data): the caching wrapper of a raw handle.
CachedObservableFrom(data) == CachedHandle(data.id)

NoEntry == [mimeType |-> "", cost |-> 0, data |-> CachedHandle(<<>>)]

\* ------------------------------------------------------------- Map (Dataset)
\* A Map is a sequence of entries with unique mimeType keys, in insertion order.
Keys(m) == {m[i].mimeType : i \in 1..Len(m)}
Has(m, k) == k \in Keys(m)
IndexOf(m, k) == CHOOSE i \in 1..Len(m) : m[i].mimeType = k
Get(m, k) == m[IndexOf(m, k)]
\* The processed map replaced by a map holding the new entry alone.
MapSetAlone(m, e) == <<e>>
\* Map.set: replaces the value of an existing key in place, else appends.
MapSet(m, e) ==
  IF Has(m, e.mimeType)
    THEN [m EXCEPT ![IndexOf(m, e.mimeType)] = e]
    ELSE Append(m, e)
CostOf(m) == [k \in Keys(m) |-> Get(m, k).cost]

\* --------------------------------------------------------------- converters
\* A converter of the model converts one source mimetype: it returns one
\* candidate per element of outs, or throws, and returns [] for other inputs.
CandidateCost(md, cost, weight) == IF md = "additive" THEN cost + weight ELSE weight

Throws(c, entry) == c.throws /\ entry.mimeType = c.from

\* c(entry): n and i identify the invocation, so that every returned
\* Observable is a new object.
Convert(c, md, entry, n, i) ==
  IF entry.mimeType # c.from \/ c.throws
    THEN <<>>
    ELSE [j \in 1..Len(c.outs) |->
            [mimeType |-> c.outs[j].to,
             cost |-> CandidateCost(md, entry.cost, c.outs[j].weight),
             data |-> RawHandle(<<n, i, j>>)]]

\* The reducer with its operands swapped: r.concat(l).
ConcatSwapped(l, r) == r \o l
\* (l, r) => l.concat(r)
Concat(l, r) == l \o r

\* xs.reduce(f, acc), from index i on
RECURSIVE Reduce(_, _, _)
Reduce(xs, acc, i) ==
  IF i > Len(xs) THEN acc ELSE Reduce(xs, Concat(acc, xs[i]), i + 1)

\* combineManyConverters(...cs)(entry)
CombineManyConverters(cs, md, entry, n) ==
  Reduce([i \in 1..Len(cs) |-> Convert(cs[i], md, entry, n, i)], <<>>, 1)

\* A combinator that catches what its converters throw.
CombineCatches(cs, entry) == FALSE
\* converters.map(c => c(dataset)) throws as soon as one converter throws
CombineThrows(cs, entry) == \E i \in 1..Len(cs) : Throws(cs[i], entry)

\* ----------------------------------------------------- applyConverterDataset
\* A worklist that starts with an entry of its own when the seed has none.
InitialToProcessOrDefault(ds) ==
  IF ds = <<>>
  THEN <<[mimeType |-> SeedTypes[1], cost |-> 0, data |-> CachedHandle(<<0, 0, 0>>)]>>
  ELSE ds
\* [...dataset].map(([mimeType, [cost, data]]) => ({mimeType, cost, data}))
InitialToProcess(ds) == [i \in 1..Len(ds) |-> ds[i]]

\* Other tests the loop could apply to the popped entry: presence alone
\* (each mimetype processed once), a strict comparison, the comparison reversed.
DominatedIfPresent(p, e) == Has(p, e.mimeType)
DominatedStrict(p, e) == Has(p, e.mimeType) /\ Get(p, e.mimeType).cost < e.cost
DominatedReversed(p, e) == Has(p, e.mimeType) /\ Get(p, e.mimeType).cost >= e.cost
\* processed.has(mimeType) && processed.get(mimeType)![0] <= cost
Dominated(p, e) == Has(p, e.mimeType) /\ Get(p, e.mimeType).cost <= e.cost

\* A candidate pushed as the converter returned it, its handle not wrapped.
KeepRaw(c) == c
\* ({cost, mimeType, data}) => ({cost, mimeType, data: CachedObservable.from(data)})
WrapCandidate(c) ==
  [mimeType |-> c.mimeType, cost |-> c.cost, data |-> CachedObservableFrom(c.data)]

\* The converter invoked only for a mimetype the processed map p did not
\* hold yet: an entry that overwrites a processed one is not expanded again.
CandidatesFirstVisit(p, e, n) ==
  IF Has(p, e.mimeType) THEN <<>> ELSE CombineManyConverters(converters, mode, e, n)
\* The candidates' costs taken as increments: the cost of the expanded entry
\* added to each of them.
CandidatesSummed(p, e, n) ==
  [j \in 1..Len(CombineManyConverters(converters, mode, e, n)) |->
     [CombineManyConverters(converters, mode, e, n)[j] EXCEPT !.cost = @ + e.cost]]
\* converter({cost, data, mimeType, url}): invoked for every entry that was
\* set in the processed map, whatever p, the map before the set, held.
Candidates(p, e, n) == CombineManyConverters(converters, mode, e, n)

\* The worklist replaced by the wrapped candidates: toProcess = candidates.map(...)
PushReplacing(rest, cands) == [j \in 1..Len(cands) |-> WrapCandidate(cands[j])]
\* toProcess = toProcess.concat(candidates.map(...))
Push(rest, cands) == rest \o [j \in 1..Len(cands) |-> WrapCandidate(cands[j])]

\* toProcess.shift(): the first element, and the worklist without it.
Shift(w) == [entry |-> w[1], rest |-> SubSeq(w, 2, Len(w))]
\* toProcess.pop(): the last element, and the worklist without it.
Pop(w) == [entry |-> w[Len(w)], rest |-> SubSeq(w, 1, Len(w) - 1)]
Top == Pop(toProcess).entry
Rest == Pop(toProcess).rest

\* The seed written through the processed map, as if line 41 were
\* const processed = dataset.
DatasetAliased(ds, e) == MapSet(ds, e)
\* What processed.set(mimeType, [cost, data]) does to the seed: nothing,
\* processed being a Map of its own (new Map()).
DatasetAfterSet(ds, e) == ds

\* Every candidate's handle subscribed to as soon as it is wrapped.
StartedEagerly(st, cands) ==
  [x \in DOMAIN st \cup {cands[j].data.id : j \in 1..Len(cands)} |->
     (IF x \in DOMAIN st THEN st[x] ELSE 0)
     + (IF \E j \in 1..Len(cands) : cands[j].data.id = x THEN 1 ELSE 0)]
\* The computations started by wrapping and pushing the candidates: none,
\* CachedObservable.from(data) is the only thing done with a handle.
StartedByPush(st, cands) == st

\* The call: the worklist holds the seed's entries, the processed map is empty.
Call ==
  /\ pc = "idle"
  /\ toProcess' = InitialToProcess(dataset)
  /\ processed' = <<>>
  /\ pc' = "loop"
  /\ last' = [op |-> "call", entry |-> NoEntry]
  /\ UNCHANGED <<inputVars, previous, result, calls, combineVars, cacheVars>>

\* One iteration that pops a dominated entry: continue.
Skip ==
  /\ pc = "loop"
  /\ toProcess # <<>>
  /\ Dominated(processed, Top)
  /\ toProcess' = Rest
  /\ last' = [op |-> "skip", entry |-> Top]
  /\ UNCHANGED <<inputVars, previous, pc, processed, result, calls, combineVars, cacheVars>>

\* One iteration that records the popped entry and pushes its conversions.
Expand ==
  /\ pc = "loop"
  /\ toProcess # <<>>
  /\ ~Dominated(processed, Top)
  /\ ~CombineThrows(converters, Top)
  /\ processed' = MapSet(processed, Top)
  /\ calls' = Append(calls, [url |-> url, mimeType |-> Top.mimeType,
                             cost |-> Top.cost, data |-> Top.data])
  /\ toProcess' = Push(Rest, Candidates(processed, Top, Len(calls) + 1))
  /\ dataset' = DatasetAfterSet(dataset, Top)
  /\ started' = StartedByPush(started, Candidates(processed, Top, Len(calls) + 1))
  /\ last' = [op |-> "expand", entry |-> Top]
  /\ UNCHANGED <<fixedVars, pc, result, combineVars, pending, settled, waiting, observed>>

\* One iteration in which the converter throws: the call ends, nothing is returned.
Fail ==
  /\ pc = "loop"
  /\ toProcess # <<>>
  /\ ~Dominated(processed, Top)
  /\ CombineThrows(converters, Top)
  /\ processed' = MapSet(processed, Top)
  /\ calls' = Append(calls, [url |-> url, mimeType |-> Top.mimeType,
                             cost |-> Top.cost, data |-> Top.data])
  /\ toProcess' = Rest
  /\ pc' = "failed"
  /\ dataset' = DatasetAfterSet(dataset, Top)
  /\ last' = [op |-> "fail", entry |-> Top]
  /\ UNCHANGED <<fixedVars, result, combineVars, cacheVars>>

\* The worklist is empty: return processed.
Return ==
  /\ pc = "loop"
  /\ toProcess = <<>>
  /\ pc' = "returned"
  /\ result' = processed
  /\ last' = [op |-> "return", entry |-> NoEntry]
  /\ UNCHANGED <<inputVars, previous, toProcess, processed, calls, combineVars, cacheVars>>

\* ------------------------------------------------------------------- inputs
SeedDatasets ==
  UNION {{[i \in 1..n |-> [mimeType |-> SeedTypes[i], cost |-> c[i],
                            data |-> CachedHandle(<<0, 0, i>>)]] :
            c \in [1..n -> Costs]} : n \in 0..Len(SeedTypes)}

\* Converters from one mimetype to another one, at one weight.
EdgeConverters ==
  UNION {{[from |-> f, outs |-> <<[to |-> t, weight |-> w]>>, throws |-> FALSE] :
            t \in MimeTypeSet \ {f}, w \in Costs} : f \in MimeTypeSet}
ThrowingConverters == {[from |-> f, outs |-> <<>>, throws |-> TRUE] : f \in MimeTypeSet}
ConverterLists == UNION {[1..n -> EdgeConverters \cup ThrowingConverters] : n \in 0..MaxConverters}

\* Nothing has been called yet.
Quiescent ==
  /\ pc = "idle"
  /\ toProcess = <<>>
  /\ processed = <<>>
  /\ result = <<>>
  /\ calls = <<>>
  /\ last = [op |-> "none", entry |-> NoEntry]
  /\ previous = <<>>
  /\ out = <<>>
  /\ invoked = <<>>
  /\ started = <<>>
  /\ pending = {}
  /\ settled = {}
  /\ waiting = {}
  /\ observed = {}

Init ==
  /\ url \in URLs
  /\ dataset \in SeedDatasets
  /\ converters \in ConverterLists
  /\ mode \in {"additive", "fixed"}
  /\ arg = NoEntry
  /\ Quiescent

Next == Call \/ Skip \/ Expand \/ Fail \/ Return

Spec == Init /\ [][Next]_vars

\* A call with a converter that never throws and whose candidates come from
\* a finite set of (mimetype, cost) pairs, run to its end: the loop of lines
\* 44-64 is a plain synchronous loop, nothing suspends it between two
\* iterations, and no iteration of it can fail.
InitLive ==
  /\ Init
  /\ mode = "fixed"
  /\ \A i \in 1..Len(converters) : ~converters[i].throws

NextLive == Call \/ Skip \/ Expand \/ Return

SpecLive == InitLive /\ [][NextLive]_vars /\ WF_vars(NextLive)

\* ------------------------------------------- a call on the returned dataset
\* applyConverterDataset(url, result, converter): what a call returned is
\* given as the seed of a second call, with the same url and converter.
CallAgain ==
  /\ pc = "returned"
  /\ previous = <<>>
  /\ previous' = <<result>>
  /\ dataset' = result
  /\ pc' = "loop"
  /\ toProcess' = InitialToProcess(result)
  /\ processed' = <<>>
  /\ result' = <<>>
  /\ last' = [op |-> "call", entry |-> NoEntry]
  /\ UNCHANGED <<url, converters, mode, calls, combineVars, cacheVars>>

NextAgain == Next \/ CallAgain

SpecAgain == Init /\ [][NextAgain]_vars

\* --------------------------------------------- combineManyConverters alone
\* converters.map(c => c(dataset)): the converters run in order, each on the
\* same argument, up to the first one that throws.
Invocations(cs, e) ==
  LET stop == IF CombineThrows(cs, e)
                THEN CHOOSE i \in 1..Len(cs) :
                       Throws(cs[i], e) /\ \A k \in 1..(i - 1) : ~Throws(cs[k], e)
                ELSE Len(cs)
  IN [i \in 1..stop |-> [converter |-> i, argument |-> e]]

\* A direct call of combineManyConverters(...converters)(arg) that returns.
Combine ==
  /\ pc = "idle"
  /\ ~CombineThrows(converters, arg)
  /\ invoked' = Invocations(converters, arg)
  /\ out' = CombineManyConverters(converters, mode, arg, 1)
  /\ pc' = "combined"
  /\ UNCHANGED <<inputVars, previous, arg, toProcess, processed, result, calls, last, cacheVars>>

\* A direct call in which one of the converters throws.
CombineFail ==
  /\ pc = "idle"
  /\ CombineThrows(converters, arg)
  /\ invoked' = Invocations(converters, arg)
  /\ pc' = "combineFailed"
  /\ UNCHANGED <<inputVars, previous, arg, out, toProcess, processed, result, calls, last, cacheVars>>

\* Converters that return up to two candidates for their source mimetype.
TargetLists == UNION {[1..n -> MimeTypeSet] : n \in 0..2}
ListConverters ==
  {[from |-> f, outs |-> [j \in 1..Len(ts) |-> [to |-> ts[j], weight |-> j]],
    throws |-> FALSE] : f \in MimeTypeSet, ts \in TargetLists}

InitCombine ==
  /\ url \in URLs
  /\ dataset = <<>>
  /\ converters \in UNION {[1..n -> ListConverters \cup ThrowingConverters] :
                            n \in 0..MaxConverters}
  /\ mode \in {"additive", "fixed"}
  /\ arg \in {[mimeType |-> m, cost |-> c, data |-> CachedHandle(<<0, 0, 1>>)] :
                m \in MimeTypeSet, c \in Costs}
  /\ Quiescent

NextCombine == Combine \/ CombineFail

SpecCombine == InitCombine /\ [][NextCombine]_vars

\* ------------------------------------------ consumers of the returned dataset
\* The result slot a subscription attaches to. A CachedObservable owns one
\* slot, shared by all its subscribers; a raw Observable computes anew for
\* every subscriber.
SlotOf(data, c) == IF data.kind = "cached" THEN <<data.id>> ELSE <<data.id, c>>

Started(id) == IF id \in DOMAIN started THEN started[id] ELSE 0

\* Consumer c subscribes to a handle of the returned dataset: the first
\* subscription of a slot starts the underlying computation, one that finds
\* it in flight joins it, one that finds the outcome gets it replayed.
Subscribe(c, data) ==
  LET slot == SlotOf(data, c) IN
  /\ pc = "returned"
  /\ \A w \in waiting : ~(w.consumer = c /\ w.id = data.id)
  /\ \A o \in observed : ~(o.consumer = c /\ o.id = data.id)
  /\ IF \E d \in settled : d.slot = slot
       THEN /\ observed' = observed \cup
                 {[consumer |-> c, id |-> data.id, how |-> "replayed",
                   outcome |-> (CHOOSE d \in settled : d.slot = slot).outcome]}
            /\ UNCHANGED <<started, pending, waiting>>
       ELSE /\ waiting' = waiting \cup
                 {[consumer |-> c, id |-> data.id, slot |-> slot,
                   how |-> IF slot \in pending THEN "joined" ELSE "first"]}
            /\ pending' = pending \cup {slot}
            /\ started' = IF slot \in pending
                            THEN started
                            ELSE [x \in DOMAIN started \cup {data.id} |->
                                    Started(x) + IF x = data.id THEN 1 ELSE 0]
            /\ UNCHANGED observed
  /\ UNCHANGED <<inputVars, previous, pc, toProcess, processed, result, calls, last,
                 combineVars, settled>>

\* The computation of a slot ends: every subscription attached gets the outcome.
Settle(slot, outcome) ==
  /\ slot \in pending
  /\ pending' = pending \ {slot}
  /\ settled' = settled \cup {[slot |-> slot, outcome |-> outcome]}
  /\ waiting' = {w \in waiting : w.slot # slot}
  /\ observed' = observed \cup
       {[consumer |-> w.consumer, id |-> w.id, how |-> w.how, outcome |-> outcome] :
          w \in {x \in waiting : x.slot = slot}}
  /\ UNCHANGED <<inputVars, previous, pc, toProcess, processed, result, calls, last,
                 combineVars, started>>

\* A call on a seed of one entry of cost 0, with a converter from its
\* mimetype to a second one and a converter that leads back from there or
\* throws, and the consumers of what the call returns.
InitCache ==
  /\ Init
  /\ Len(dataset) = 1
  /\ dataset[1].cost = 0
  /\ Len(converters) = 2
  /\ converters[1].from = SeedTypes[1]
  /\ ~converters[1].throws
  /\ converters[1].outs[1].to = SeedTypes[2]
  /\ converters[2].from = SeedTypes[2]
  /\ (converters[2].throws \/ converters[2].outs[1].to = SeedTypes[1])

NextCache ==
  \/ Next
  \/ \E c \in Consumers : \E i \in 1..Len(result) : Subscribe(c, result[i].data)
  \/ \E slot \in pending : \E outcome \in Outcomes : Settle(slot, outcome)

SpecCache == InitCache /\ [][NextCache]_vars

\* ------------------------------------------------------------------- claims
Returned == pc = "returned"

\* C1: when the call has returned, every candidate the converter produces
\* from an entry of the result has a mimetype that the result either lacks
\* or holds at a cost no higher than the candidate's.
NoCheaperEdge ==
  Returned =>
    \A k \in 1..Len(result) :
      LET cands == CombineManyConverters(converters, mode, result[k], 0)
      IN \A j \in 1..Len(cands) :
           \/ ~Has(result, cands[j].mimeType)
           \/ Get(result, cands[j].mimeType).cost <= cands[j].cost

\* A returned result in which a candidate arrived twice for one mimetype, the
\* second time at a lower cost than the one processed first.
NoCheaperEdgeWitness ==
  /\ Returned
  /\ \E k \in 1..Len(result) :
       LET cands == CombineManyConverters(converters, mode, result[k], 0)
       IN \E i, j \in 1..Len(cands) :
            /\ i < j
            /\ cands[i].mimeType = cands[j].mimeType
            /\ cands[i].cost < cands[j].cost
            /\ Get(result, cands[i].mimeType).cost = cands[i].cost

\* The mimetypes the converter produces from an entry of mimetype m.
Successors(m) ==
  UNION {{converters[i].outs[j].to : j \in 1..Len(converters[i].outs)} :
           i \in {x \in 1..Len(converters) : converters[x].from = m}}

\* The mimetypes reachable from those of S by zero or more conversions.
RECURSIVE ReachableFrom(_)
ReachableFrom(S) ==
  LET T == S \cup UNION {Successors(m) : m \in S}
  IN IF T = S THEN S ELSE ReachableFrom(T)

\* C2: when the call has returned, the keys of the result are exactly the
\* mimetypes reachable from the seed's mimetypes by chaining conversions.
ReachabilityClosure == Returned => Keys(result) = ReachableFrom(Keys(dataset))

\* A returned result with a mimetype that takes a chain of two conversions.
ReachabilityClosureWitness ==
  /\ Returned
  /\ \E m \in Keys(result) :
       /\ m \notin Keys(dataset)
       /\ m \notin UNION {Successors(s) : s \in Keys(dataset)}

\* The (mimetype, cost) pairs at the end of a conversion chain of at most k
\* conversions that starts at one of the pairs P.
RECURSIVE ChainEnds(_, _)
ChainEnds(P, k) ==
  IF k = 0 THEN P
  ELSE ChainEnds(
         P \cup UNION {
           LET cands == CombineManyConverters(converters, mode,
                          [mimeType |-> p[1], cost |-> p[2], data |-> NoEntry.data], 0)
           IN {<<cands[j].mimeType, cands[j].cost>> : j \in 1..Len(cands)} : p \in P},
         k - 1)

\* The costs of the chains from a seed entry to mimetype m. A cheapest chain
\* visits no mimetype twice, so Len(MimeTypes) conversions are enough.
ChainCosts(m) ==
  LET ends == ChainEnds({<<dataset[i].mimeType, dataset[i].cost>> : i \in 1..Len(dataset)},
                        Len(MimeTypes))
  IN {p[2] : p \in {q \in ends : q[1] = m}}

Minimum(S) == CHOOSE x \in S : \A y \in S : x <= y

\* C3: when the call has returned, the cost the result stores for a mimetype
\* is the minimum cost over all conversion chains from a seed entry to it.
CheapestPath ==
  Returned =>
    \A k \in 1..Len(result) :
      /\ ChainCosts(result[k].mimeType) # {}
      /\ result[k].cost = Minimum(ChainCosts(result[k].mimeType))

\* A returned run that expanded two mimetypes twice each: a cost lowered late
\* was propagated to the mimetype derived from it.
CheapestPathWitness ==
  /\ Returned
  /\ mode = "additive"
  /\ \E i, j, k, l \in 1..Len(calls) :
       /\ i < j /\ j < k /\ k < l
       /\ calls[i].mimeType = calls[k].mimeType
       /\ calls[j].mimeType = calls[l].mimeType
       /\ calls[i].mimeType # calls[j].mimeType
       /\ calls[k].cost < calls[i].cost
       /\ calls[l].cost < calls[j].cost

\* C4: when the call has returned, the result holds every mimetype of the
\* seed, at a cost no higher than the seed's.
SeedCostMonotonic ==
  Returned =>
    \A i \in 1..Len(dataset) :
      /\ Has(result, dataset[i].mimeType)
      /\ Get(result, dataset[i].mimeType).cost <= dataset[i].cost

\* A returned result that holds a seed mimetype at a lower cost than the seed.
SeedCostMonotonicWitness ==
  /\ Returned
  /\ \E i \in 1..Len(dataset) :
       /\ Has(result, dataset[i].mimeType)
       /\ Get(result, dataset[i].mimeType).cost < dataset[i].cost

\* C7: an iteration that pops an entry whose mimetype the processed map
\* already holds at a lower or equal cost leaves the processed map as it is
\* (same cost, same handle), invokes no converter and pushes nothing.
DominatedDiscarded ==
  [][(/\ pc = "loop"
      /\ toProcess # <<>>
      /\ Has(processed, Top.mimeType)
      /\ Get(processed, Top.mimeType).cost <= Top.cost)
     => (/\ processed' = processed
         /\ calls' = calls
         /\ toProcess' = Rest
         /\ pc' = "loop")]_vars

\* An entry was just discarded whose cost equals the stored cost and whose
\* handle is another one: the entry processed first was kept.
DominatedDiscardedWitness ==
  /\ last.op = "skip"
  /\ Has(processed, last.entry.mimeType)
  /\ Get(processed, last.entry.mimeType).cost = last.entry.cost
  /\ Get(processed, last.entry.mimeType).data # last.entry.data

\* C8: when two of the combined converters offer the same mimetype from the
\* same entry of the result at different costs, the returned result holds
\* that mimetype at no more than the lower cost, and at exactly the lower
\* cost when no conversion chain is cheaper, whatever the converters' order.
OrderIndependentMinimum ==
  Returned =>
    \A k \in 1..Len(result) : \A a, b \in 1..Len(converters) :
      LET ca == Convert(converters[a], mode, result[k], 0, a)
          cb == Convert(converters[b], mode, result[k], 0, b)
      IN \A i \in 1..Len(ca) : \A j \in 1..Len(cb) :
           (ca[i].mimeType = cb[j].mimeType /\ ca[i].cost < cb[j].cost)
           => /\ Has(result, ca[i].mimeType)
              /\ Get(result, ca[i].mimeType).cost <= ca[i].cost
              /\ (\A c \in ChainCosts(ca[i].mimeType) : c >= ca[i].cost)
                   => Get(result, ca[i].mimeType).cost = ca[i].cost

\* A returned result that holds the lower of two costs offered for one
\* mimetype, the lower one offered by the first converter, so that it was
\* popped after the higher one.
OrderIndependentMinimumWitness ==
  /\ Returned
  /\ Len(converters) = 2
  /\ \E k \in 1..Len(result) :
       LET ca == Convert(converters[1], mode, result[k], 0, 1)
           cb == Convert(converters[2], mode, result[k], 0, 2)
       IN /\ Len(ca) = 1 /\ Len(cb) = 1
          /\ ca[1].mimeType = cb[1].mimeType
          /\ ca[1].cost < cb[1].cost
          /\ Get(result, ca[1].mimeType).cost = ca[1].cost

\* The handles of the seed dataset.
SeedHandles == {dataset[i].data : i \in 1..Len(dataset)}

\* A handle the engine may hold: a seed handle, or the caching wrapper of
\* the raw handle of a candidate of one of the converter invocations so far.
Exposable(data) ==
  /\ data.kind = "cached"
  /\ \/ data \in SeedHandles
     \/ /\ data = CachedObservableFrom(RawHandle(data.id))
        /\ data.id[1] \in 1..Len(calls)

\* C10: every handle on the worklist, in the processed map and in the
\* returned dataset is a caching wrapper: a seed handle or a wrapped candidate.
OnlyCachedHandles ==
  /\ \A i \in 1..Len(toProcess) : Exposable(toProcess[i].data)
  /\ \A i \in 1..Len(processed) : Exposable(processed[i].data)
  /\ \A i \in 1..Len(result) : Exposable(result[i].data)

\* A returned dataset that holds the wrapper of a converter's candidate.
OnlyCachedHandlesWitness ==
  /\ Returned
  /\ \E i \in 1..Len(result) : result[i].data \notin SeedHandles

\* What converter i of the combination returns for the argument.
OutputOf(i) == Convert(converters[i], mode, arg, 1, i)

\* The number of candidates of the converters before converter i.
RECURSIVE Offset(_)
Offset(i) == IF i <= 1 THEN 0 ELSE Offset(i - 1) + Len(OutputOf(i - 1))

\* C6: a call of the combined converter that returns has invoked every
\* converter once, in order, with the argument of the call, and returns
\* their outputs one after the other in the converters' order, each in its
\* own order, nothing dropped or duplicated; with no converter it returns
\* the empty list.
CombinatorOrder ==
  pc = "combined" =>
    /\ Len(invoked) = Len(converters)
    /\ \A i \in 1..Len(converters) :
         /\ invoked[i] = [converter |-> i, argument |-> arg]
         /\ \A j \in 1..Len(OutputOf(i)) : out[Offset(i) + j] = OutputOf(i)[j]
    /\ Len(out) = Offset(Len(converters) + 1)
    /\ (converters = <<>> => out = <<>>)

\* A returned call in which two converters returned two candidates each.
CombinatorOrderWitness ==
  /\ pc = "combined"
  /\ Len(converters) >= 2
  /\ Len(OutputOf(1)) = 2
  /\ Len(OutputOf(2)) = 2
  /\ Len(out) = 4

\* C9: for every handle of the returned dataset, however many consumers
\* subscribe and whenever they do, the underlying computation is started at
\* most once, and all subscribers get the same outcome.
SingleComputation ==
  \A i \in 1..Len(result) :
    /\ Started(result[i].data.id) <= 1
    /\ \A o1, o2 \in observed :
         (o1.id = result[i].data.id /\ o2.id = result[i].data.id)
         => o1.outcome = o2.outcome

\* A converted handle whose computation ran once for three subscribers: the
\* one that started it, one that joined it in flight, one that came after.
SingleComputationWitness ==
  \E i \in 1..Len(result) :
    /\ result[i].data \notin SeedHandles
    /\ Started(result[i].data.id) = 1
    /\ \A h \in {"first", "joined", "replayed"} :
         \E o \in observed : o.id = result[i].data.id /\ o.how = h


\* The call was abandoned because the converter threw.
Failed == pc = "failed"
\* The argument of the converter invocation made for a popped entry.
CallOf(e) == [url |-> url, mimeType |-> e.mimeType, cost |-> e.cost, data |-> e.data]
\* The converter fails on this entry: one of the combined converters throws.
FailsOn(e) == \E i \in 1..Len(converters) : converters[i].throws /\ converters[i].from = e.mimeType

\* C11: a converter failure abandons the run. The invocation that fails is the
\* one made for the popped entry, and the call ends right there: an entry that
\* is not skipped and on which the converter fails always ends the call in
\* failure; a failed call has returned no dataset, not even the processed map
\* built so far; once failed, nothing happens any more (no retry, no further
\* worklist entry is popped, the converter is not invoked again); and the seed
\* dataset is left as it was.
FailureAbandonsRun ==
  [][/\ ~Failed
     /\ dataset' = dataset
     /\ (pc = "loop" /\ toProcess # <<>>
         /\ ~(Has(processed, toProcess[Len(toProcess)].mimeType)
              /\ Get(processed, toProcess[Len(toProcess)].mimeType).cost
                   <= toProcess[Len(toProcess)].cost)
         /\ FailsOn(toProcess[Len(toProcess)]))
        => Failed'
     /\ Failed' => /\ FailsOn(toProcess[Len(toProcess)])
                   /\ calls' = Append(calls, CallOf(toProcess[Len(toProcess)]))
                   /\ result' = <<>>
                   /\ result = <<>>]_vars
\* A call that failed with entries recorded and entries still on the worklist.
FailureAbandonsRunWitness ==
  /\ Failed
  /\ Len(processed) >= 2
  /\ toProcess # <<>>
  /\ Len(calls) >= 2
  /\ result = <<>>

\* C12: an empty seed dataset gives an empty dataset back and the converter is
\* never invoked, whatever the converter is: the worklist and the processed map
\* stay empty, the call cannot fail, and what it returns is empty.
EmptyInEmptyOut ==
  dataset = <<>> =>
    /\ calls = <<>>
    /\ toProcess = <<>>
    /\ processed = <<>>
    /\ result = <<>>
    /\ pc \in {"idle", "loop", "returned"}
\* The call on an empty seed has returned, with converters at hand, one of them throwing.
EmptyInEmptyOutWitness ==
  /\ Returned
  /\ dataset = <<>>
  /\ Len(converters) = MaxConverters
  /\ \E i \in 1..Len(converters) : converters[i].throws
  /\ result = <<>>
  /\ calls = <<>>

LifoWorklist ==
  [][/\ (pc = "idle" /\ pc' = "loop") =>
          /\ Len(toProcess') = Len(dataset)
          /\ \A i \in 1..Len(dataset) : toProcess'[i] = dataset[i]
     /\ (pc = "loop" /\ toProcess # <<>>) =>
          LET k == Len(toProcess)
              n == Len(calls) + 1
              cands == CombineManyConverters(converters, mode, toProcess[k], n)
          IN /\ last'.entry = toProcess[k]
             /\ Len(toProcess') >= k - 1
             /\ \A i \in 1..(k - 1) : toProcess'[i] = toProcess[i]
             /\ last'.op = "expand" =>
                  /\ Len(toProcess') = k - 1 + Len(cands)
                  /\ \A j \in 1..Len(cands) :
                       /\ toProcess'[k - 1 + j].mimeType = cands[j].mimeType
                       /\ toProcess'[k - 1 + j].cost = cands[j].cost
                       /\ toProcess'[k - 1 + j].data.id = cands[j].data.id
             /\ last'.op # "expand" => Len(toProcess') = k - 1
     /\ (pc = "loop" /\ toProcess = <<>>) => toProcess' = <<>>]_vars
\* Two candidates of one expansion were pushed over a seed entry; the second
\* candidate has just been popped, the first one is on top, the seed entry below.
LifoWorklistWitness ==
  /\ pc = "loop"
  /\ Len(toProcess) >= 2
  /\ dataset # <<>>
  /\ toProcess[1] = dataset[1]
  /\ last.op \in {"expand", "skip"}
  /\ last.entry.data.kind = "cached"
  /\ last.entry.data.id[1] >= 1
  /\ last.entry.data.id[2] = 2
  /\ toProcess[Len(toProcess)].data.id[1] = last.entry.data.id[1]
  /\ toProcess[Len(toProcess)].data.id[2] = 1

\* C15: the processed map is monotone. No step removes a key from it or raises
\* the cost stored for a key. It changes only in a step of the loop whose
\* popped mimetype is absent from it or whose popped cost is strictly lower
\* than the stored one, and then exactly that key is set to the popped cost
\* and handle: every other key keeps its cost and handle.
MonotoneProcessed ==
  [][/\ \A k \in 1..Len(processed) :
          /\ Has(processed', processed[k].mimeType)
          /\ Get(processed', processed[k].mimeType).cost <= processed[k].cost
     /\ (processed' # processed) =>
          /\ pc = "loop"
          /\ toProcess # <<>>
          /\ LET e == toProcess[Len(toProcess)]
             IN /\ \/ ~Has(processed, e.mimeType)
                   \/ e.cost < Get(processed, e.mimeType).cost
                /\ Keys(processed') = Keys(processed) \cup {e.mimeType}
                /\ Get(processed', e.mimeType) = e
                /\ \A k \in 1..Len(processed) :
                     processed[k].mimeType # e.mimeType =>
                       Get(processed', processed[k].mimeType) = processed[k]]_vars
\* The last step lowered the cost of a mimetype that was processed before,
\* in a map that holds another mimetype too.
MonotoneProcessedWitness ==
  /\ last.op = "expand"
  /\ Len(processed) >= 2
  /\ Get(processed, last.entry.mimeType) = last.entry
  /\ calls[Len(calls)].mimeType = last.entry.mimeType
  /\ \E i \in 1..(Len(calls) - 1) :
       /\ calls[i].mimeType = last.entry.mimeType
       /\ calls[i].cost > last.entry.cost

\* C16: the engine never subscribes. No step of a running call starts a
\* computation, attaches a subscription or puts one in flight, so as many
\* computations have been started when the call returns or fails as before
\* it; the work behind a handle waits for a consumer's subscription.
EngineNeverSubscribes ==
  [][(pc \in {"idle", "loop"}) =>
       /\ started' = started
       /\ pending' = pending
       /\ waiting' = waiting
       /\ settled' = settled
       /\ observed' = observed]_vars
\* A call that invoked the converter twice has returned a dataset with a
\* converted entry, and no computation has been started.
EngineNeverSubscribesWitness ==
  /\ Returned
  /\ Len(calls) >= 2
  /\ \E k \in 1..Len(result) : result[k].data.id[1] >= 1
  /\ started = <<>>
  /\ pending = {}

\* The entry is an entry of the seed dataset.
FromSeed(e) == \E i \in 1..Len(dataset) : dataset[i] = e
\* The entry is a candidate that a converter invocation of this call returned:
\* its handle wraps the j-th output of converter i in invocation n, and it has
\* the mimetype and the cost that the converter declared for that output.
Declared(e) ==
  /\ Len(e.data.id) = 3
  /\ e.data.id[1] \in 1..Len(calls)
  /\ e.data.id[2] \in 1..Len(converters)
  /\ LET n == e.data.id[1]
         i == e.data.id[2]
         cands == Convert(converters[i], mode,
                    [mimeType |-> calls[n].mimeType, cost |-> calls[n].cost,
                     data |-> calls[n].data], n, i)
     IN /\ e.data.id[3] \in 1..Len(cands)
        /\ e.mimeType = cands[e.data.id[3]].mimeType
        /\ e.cost = cands[e.data.id[3]].cost
        /\ e.data.id = cands[e.data.id[3]].data.id
Verbatim(m) == \A k \in 1..Len(m) : FromSeed(m[k]) \/ Declared(m[k])

\* C17: costs are taken verbatim, never summed by the engine. Every entry on
\* the worklist, in the processed map and in the returned dataset is a seed
\* entry or carries exactly the mimetype and cost that a converter invocation
\* declared for a candidate; and every converter invocation receives exactly
\* the mimetype, cost and handle just recorded in the processed map, with the
\* url the call was given.
CostsVerbatim ==
  [][/\ Verbatim(toProcess)'
     /\ Verbatim(processed)'
     /\ Verbatim(result)'
     /\ url' = url
     /\ (calls' # calls) =>
          /\ Len(calls') = Len(calls) + 1
          /\ LET c == calls'[Len(calls')]
             IN /\ c.url = url
                /\ Has(processed', c.mimeType)
                /\ Get(processed', c.mimeType) =
                     [mimeType |-> c.mimeType, cost |-> c.cost, data |-> c.data]
                /\ processed' # processed]_vars
\* With a converter whose costs do not depend on the input cost, the returned
\* dataset holds a candidate at a cost below the cost of the entry it was
\* converted from: the declared cost, not a sum.
CostsVerbatimWitness ==
  /\ Returned
  /\ mode = "fixed"
  /\ \E k \in 1..Len(result) :
       /\ result[k].data.id[1] >= 1
       /\ calls[result[k].data.id[1]].cost > result[k].cost
       /\ ~FromSeed(result[k])
       /\ Declared(result[k])

\* No converter of the call throws.
TotalConverter == \A i \in 1..Len(converters) : ~converters[i].throws
\* The (mimetype, cost) pairs of the seed, and those the converters can
\* declare when their costs do not depend on the input cost.
SeedPairs == {<<dataset[i].mimeType, dataset[i].cost>> : i \in 1..Len(dataset)}
FixedPairs ==
  UNION {{<<converters[i].outs[j].to, converters[i].outs[j].weight>> :
            j \in 1..Len(converters[i].outs)} : i \in 1..Len(converters)}
InvokedPairs == {<<calls[n].mimeType, calls[n].cost>> : n \in 1..Len(calls)}

\* C18: the call terminates. Every run of the loop reaches the empty worklist
\* and returns, cycles among the conversions included, when no converter
\* throws; and the converter is invoked at most once per distinct
\* (mimetype, cost) pair, so no more often than there are such pairs among
\* the seed entries and the candidates.
Termination ==
  /\ <>Returned
  /\ [](TotalConverter /\ ~Failed)
  /\ [](Cardinality(InvokedPairs) = Len(calls))
  /\ [](InvokedPairs \subseteq SeedPairs \cup FixedPairs)
  /\ [](Len(calls) <= Cardinality(SeedPairs \cup FixedPairs))
\* A call over a cycle of conversions has returned, after expanding a
\* mimetype of the cycle twice.
TerminationWitness ==
  /\ Returned
  /\ TotalConverter
  /\ Len(converters) = 2
  /\ converters[1].outs[1].to = converters[2].from
  /\ converters[2].outs[1].to = converters[1].from
  /\ Len(calls) > Cardinality({calls[n].mimeType : n \in 1..Len(calls)})

\* C19: the seed dataset is not modified. No step of the call, whether it
\* ends in a return or in a failure, adds, removes or replaces an entry of
\* the seed; what is returned is a map of its own, so an entry it holds at a
\* lower cost than the seed, or for a mimetype the seed lacks, leaves the
\* seed's entry as it was.
SeedUnmodified == [][dataset' = dataset]_vars
\* The returned dataset differs from the seed in both ways: a seed mimetype
\* at a lower cost than the seed's, and a mimetype the seed does not hold.
SeedUnmodifiedWitness ==
  /\ Returned
  /\ \E i \in 1..Len(dataset) :
       /\ Has(result, dataset[i].mimeType)
       /\ Get(result, dataset[i].mimeType).cost < dataset[i].cost
  /\ \E k \in 1..Len(result) : ~Has(dataset, result[k].mimeType)

\* C20: expanding the returned dataset again changes no cost. With a
\* converter whose candidates depend on the input mimetype only, a second
\* call whose seed is the dataset the first call returned, with the same
\* converter, returns the same mimetypes at the same costs.
ReexpansionKeepsCosts ==
  (Returned /\ previous # <<>> /\ mode = "fixed") =>
    CostOf(result) = CostOf(previous[1])
\* The second call has returned, after invoking the converter on entries
\* that the first call had converted, over a cycle of conversions.
ReexpansionKeepsCostsWitness ==
  /\ Returned
  /\ previous # <<>>
  /\ mode = "fixed"
  /\ Len(previous[1]) = Len(MimeTypes)
  /\ dataset = previous[1]
  /\ \E k \in 1..Len(dataset) : dataset[k].data.id[1] >= 1
  /\ Len(calls) >= 2 * Len(previous[1])
  /\ CostOf(result) = CostOf(previous[1])
====
